---- MODULE Spec2Model ----
(***************************************************************************)
(* Model of proxy.py: the Anthropic /v1/messages -> OpenAI                 *)
(* /v1/chat/completions request translator, the response translator and   *)
(* the HTTP handler that drives them.                                      *)
(*                                                                         *)
(* JSON documents (Python values after json.loads) are tagged records:     *)
(*   [t |-> "null"], [t |-> "bool", b |-> ..], [t |-> "num", n |-> ..],    *)
(*   [t |-> "str", s |-> ..], [t |-> "list", l |-> <<..>>],                *)
(*   [t |-> "obj", o |-> <function from keys to values>]                   *)
(* A key that is absent from a dict is absent from DOMAIN of the function. *)
(* A Python exception leaving a function is the value Raise.               *)
(***************************************************************************)
EXTENDS Integers, Sequences, FiniteSets, TLC

(***************************************************************************)
(* Python / JSON values                                                    *)
(***************************************************************************)
Null == [t |-> "null"]
Bool(b) == [t |-> "bool", b |-> b]
Num(n) == [t |-> "num", n |-> n]
Str(s) == [t |-> "str", s |-> s]
List(l) == [t |-> "list", l |-> l]
Obj(f) == [t |-> "obj", o |-> f]
EmptyDict == [k \in {} |-> Null]

\* An exception propagating out of a call.
Raise == [t |-> "raise"]

IsStr(v) == v.t = "str"
IsList(v) == v.t = "list"
IsDict(v) == v.t = "obj"
IsNone(v) == v.t = "null"

\* Python truthiness (`if x:` / `not x`).
Truthy(v) ==
    CASE v.t = "null" -> FALSE
      [] v.t = "bool" -> v.b
      [] v.t = "num"  -> v.n # 0
      [] v.t = "str"  -> v.s # ""
      [] v.t = "list" -> v.l # <<>>
      [] v.t = "obj"  -> DOMAIN v.o # {}
      [] OTHER -> TRUE

\* dict.get(key, default) on a dict: the stored value when the key is
\* present (even when that value is None), the default otherwise.
Get(d, k, default) == IF k \in DOMAIN d.o THEN d.o[k] ELSE default

\* dict.get(key): default None.
GetN(d, k) == Get(d, k, Null)

\* A deterministic enumeration of a finite set of keys.
RECURSIVE SetToSeq(_)
SetToSeq(S) ==
    IF S = {} THEN <<>>
    ELSE LET x == CHOOSE y \in S : TRUE IN <<x>> \o SetToSeq(S \ {x})

\* sep.join(parts) for a sequence of TLA+ strings.
RECURSIVE JoinStrings(_, _)
JoinStrings(parts, sep) ==
    IF parts = <<>> THEN ""
    ELSE IF Len(parts) = 1 THEN parts[1]
    ELSE parts[1] \o sep \o JoinStrings(Tail(parts), sep)

\* json.dumps(v) with the default separators (", " and ": ").
RECURSIVE Dumps(_)
Dumps(v) ==
    CASE v.t = "null" -> "null"
      [] v.t = "bool" -> IF v.b THEN "true" ELSE "false"
      [] v.t = "num"  -> ToString(v.n)
      [] v.t = "str"  -> "\"" \o v.s \o "\""
      [] v.t = "list" ->
            "[" \o JoinStrings([i \in 1..Len(v.l) |-> Dumps(v.l[i])], ", ") \o "]"
      [] v.t = "obj"  ->
            LET ks == SetToSeq(DOMAIN v.o) IN
            "{" \o JoinStrings([i \in 1..Len(ks) |->
                        "\"" \o ks[i] \o "\": " \o Dumps(v.o[ks[i]])], ", ") \o "}"

\* repr(v) of a Python value.
RECURSIVE PyRepr(_)
PyRepr(v) ==
    CASE v.t = "null" -> "None"
      [] v.t = "bool" -> IF v.b THEN "True" ELSE "False"
      [] v.t = "num"  -> ToString(v.n)
      [] v.t = "str"  -> "'" \o v.s \o "'"
      [] v.t = "list" ->
            "[" \o JoinStrings([i \in 1..Len(v.l) |-> PyRepr(v.l[i])], ", ") \o "]"
      [] v.t = "obj"  ->
            LET ks == SetToSeq(DOMAIN v.o) IN
            "{" \o JoinStrings([i \in 1..Len(ks) |->
                        "'" \o ks[i] \o "': " \o PyRepr(v.o[ks[i]])], ", ") \o "}"

\* str(v): a string is itself, anything else its repr.
PyStr(v) == IF IsStr(v) THEN v.s ELSE PyRepr(v)

\* The JSON values whose text json.loads is asked to parse in this model.
ParseUniverse ==
    { Obj(EmptyDict), Obj([x |-> Num(1)]), Num(7), Null, Str("hello"),
      List(<<>>), Bool(TRUE) }

\* json.loads(s): the value whose JSON text is s, or Raise (JSONDecodeError)
\* when s is the text of no JSON value.
Loads(s) ==
    IF \E v \in ParseUniverse : Dumps(v) = s
    THEN CHOOSE v \in ParseUniverse : Dumps(v) = s
    ELSE Raise

(***************************************************************************)
(* convert_anthropic_to_openai_request                                     *)
(***************************************************************************)

\* uuid.uuid4().hex[:16] behind the "call_" prefix: the draw `u` of this call,
\* made distinct per message index i and block index j.
FreshCallId(u, i, j) == Str("call_" \o u \o "_" \o ToString(i) \o "_" \o ToString(j))

\* [item for item in content if isinstance(item, dict) and item.get("type") == ty]
BlocksOfType(content, ty) ==
    LET Keep(item) == IsDict(item) /\ GetN(item, "type") = Str(ty)
    IN SelectSeq(content, Keep)

\* [item.get("text", "") for item in content if ... item.get("type") == "text"]
TextParts(content) ==
    LET items == BlocksOfType(content, "text")
    IN [k \in 1..Len(items) |-> Get(items[k], "text", Str(""))]

\* "\n".join(text_parts): TypeError when a part is not a string.
JoinText(text_parts) ==
    IF \E k \in 1..Len(text_parts) : ~IsStr(text_parts[k]) THEN Raise
    ELSE Str(JoinStrings([k \in 1..Len(text_parts) |-> text_parts[k].s], "\n"))

\* The defaults of the four copied fields.
RequestFields(req) ==
    [ model       |-> Get(req, "model", Str("gpt-4")),
      max_tokens  |-> Get(req, "max_tokens", Num(1024)),
      temperature |-> GetN(req, "temperature"),
      stream      |-> Get(req, "stream", Bool(FALSE)) ]

\* role == "system": the messages appended for one source message.
SystemMessages(content) ==
    IF IsStr(content) THEN List(<< Obj([role |-> Str("system"), content |-> content]) >>)
    ELSE IF IsList(content) THEN
        LET text_parts == TextParts(content.l) IN
        IF text_parts = <<>> THEN List(<<>>)
        ELSE LET joined == JoinText(text_parts) IN
             IF joined = Raise THEN Raise
             ELSE List(<< Obj([role |-> Str("system"), content |-> joined]) >>)
    ELSE List(<<>>)

\* One "tool" message for one tool_result block.
ToolMessage(tool_result) ==
    LET raw == Get(tool_result, "content", Str(""))
        tool_content == IF IsStr(raw) THEN raw
                        ELSE IF Truthy(raw) THEN Str(Dumps(raw)) ELSE Str("")
    IN Obj([ role         |-> Str("tool"),
             content      |-> tool_content,
             tool_call_id |-> Get(tool_result, "tool_use_id", Str("")) ])

\* UserMessages with the text message appended before the tool messages.
UserMessages_TextFirst(content) ==
    IF IsStr(content) THEN List(<< Obj([role |-> Str("user"), content |-> content]) >>)
    ELSE IF IsList(content) THEN
        LET tool_results == BlocksOfType(content.l, "tool_result")
            text_parts   == TextParts(content.l)
            tool_msgs    == [k \in 1..Len(tool_results) |-> ToolMessage(tool_results[k])]
        IN  IF text_parts = <<>> THEN List(tool_msgs)
            ELSE LET joined == JoinText(text_parts) IN
                 IF joined = Raise THEN Raise
                 ELSE List(<< Obj([role |-> Str("user"), content |-> joined]) >> \o tool_msgs)
    ELSE IF IsNone(content) THEN List(<< Obj([role |-> Str("user"), content |-> Str("")]) >>)
    ELSE List(<<>>)

\* role == "user": the messages appended for one source message.
UserMessages(content) ==
    IF IsStr(content) THEN List(<< Obj([role |-> Str("user"), content |-> content]) >>)
    ELSE IF IsList(content) THEN
        LET tool_results == BlocksOfType(content.l, "tool_result")
            text_parts   == TextParts(content.l)
            tool_msgs    == [k \in 1..Len(tool_results) |-> ToolMessage(tool_results[k])]
        IN  IF text_parts = <<>> THEN List(tool_msgs)
            ELSE LET joined == JoinText(text_parts) IN
                 IF joined = Raise THEN Raise
                 ELSE List(tool_msgs \o << Obj([role |-> Str("user"), content |-> joined]) >>)
    ELSE IF IsNone(content) THEN List(<< Obj([role |-> Str("user"), content |-> Str("")]) >>)
    ELSE List(<<>>)

\* ToolCall that always generates the id instead of taking the block's.
ToolCall_GeneratedId(tool_use, fresh) ==
    LET tool_name  == Get(tool_use, "name", Str(""))
        tool_input == Get(tool_use, "input", Obj(EmptyDict))
    IN Obj([ id       |-> fresh,
             type     |-> Str("function"),
             function |-> Obj([ name      |-> tool_name,
                                arguments |-> IF IsStr(tool_input) THEN tool_input
                                              ELSE Str(Dumps(tool_input)) ]) ])

\* One tool_calls entry for one tool_use block (the block has a truthy name).
ToolCall(tool_use, fresh) ==
    LET tool_name  == Get(tool_use, "name", Str(""))
        tool_input == Get(tool_use, "input", Obj(EmptyDict))
    IN Obj([ id       |-> Get(tool_use, "id", fresh),
             type     |-> Str("function"),
             function |-> Obj([ name      |-> tool_name,
                                arguments |-> IF IsStr(tool_input) THEN tool_input
                                              ELSE Str(Dumps(tool_input)) ]) ])

\* The tool_calls list built from the tool_use blocks: blocks without a
\* truthy name are left out.
RECURSIVE ToolCalls(_, _, _, _)
ToolCalls(tool_uses, j, u, i) ==
    IF j > Len(tool_uses) THEN <<>>
    ELSE LET tool_use == tool_uses[j]
             rest     == ToolCalls(tool_uses, j + 1, u, i)
         IN IF Truthy(Get(tool_use, "name", Str("")))
            THEN << ToolCall(tool_use, FreshCallId(u, i, j)) >> \o rest
            ELSE rest

\* role == "assistant": the messages appended for source message number i.
AssistantMessages(content, u, i) ==
    IF IsStr(content) THEN List(<< Obj([role |-> Str("assistant"), content |-> content]) >>)
    ELSE IF IsList(content) THEN
        LET text_parts == TextParts(content.l)
            tool_uses  == BlocksOfType(content.l, "tool_use")
            joined     == JoinText(text_parts)
            msg0       == [role |-> Str("assistant")]
            msg1       == IF text_parts # <<>> THEN msg0 @@ [content |-> joined]
                          ELSE IF tool_uses = <<>> THEN msg0 @@ [content |-> Str("")]
                          ELSE msg0
            tool_calls == ToolCalls(tool_uses, 1, u, i)
            msg2       == IF tool_uses # <<>> /\ tool_calls # <<>>
                          THEN msg1 @@ [tool_calls |-> List(tool_calls)]
                          ELSE msg1
        IN  IF text_parts # <<>> /\ joined = Raise THEN Raise
            ELSE List(<< Obj(msg2) >>)
    ELSE IF IsNone(content) THEN List(<< Obj([role |-> Str("assistant"), content |-> Str("")]) >>)
    ELSE List(<<>>)

\* The body of `for msg in anthropic_messages` for source message number i:
\* msg.get on a non-dict raises AttributeError.
MessageBranch(msg, u, i) ==
    IF ~IsDict(msg) THEN Raise
    ELSE LET role    == GetN(msg, "role")
             content == GetN(msg, "content")
         IN  IF role = Str("system") THEN SystemMessages(content)
             ELSE IF role = Str("user") THEN UserMessages(content)
             ELSE IF role = Str("assistant") THEN AssistantMessages(content, u, i)
             ELSE List(<<>>)

\* The loop over the source messages, from message number i on.
RECURSIVE ConvertMessages(_, _, _)
ConvertMessages(msgs, u, i) ==
    IF i > Len(msgs) THEN List(<<>>)
    ELSE LET here == MessageBranch(msgs[i], u, i) IN
         IF here = Raise THEN Raise
         ELSE LET rest == ConvertMessages(msgs, u, i + 1) IN
              IF rest = Raise THEN Raise ELSE List(here.l \o rest.l)

\* One OpenAI tool definition.
OpenAITool(tool) ==
    Obj([ type     |-> Str("function"),
          function |-> Obj([ name        |-> Get(tool, "name", Str("")),
                             description |-> Get(tool, "description", Str("")),
                             parameters  |-> Get(tool, "input_schema", Obj(EmptyDict)) ]) ])

\* The loop over anthropic_tools (truthy): iterating a non-list yields
\* non-dicts or is a TypeError; tool.get on a non-dict raises.
ConvertTools(anthropic_tools) ==
    IF ~IsList(anthropic_tools) THEN Raise
    ELSE IF \E k \in 1..Len(anthropic_tools.l) : ~IsDict(anthropic_tools.l[k]) THEN Raise
    ELSE List([k \in 1..Len(anthropic_tools.l) |-> OpenAITool(anthropic_tools.l[k])])

\* convert_anthropic_to_openai_request(anthropic_request), with u the outcome
\* of the uuid draws of this call: an OpenAI request, or Raise.
convert_anthropic_to_openai_request(anthropic_request, u) ==
    LET openai_request     == RequestFields(anthropic_request)
        anthropic_messages == Get(anthropic_request, "messages", List(<<>>))
    IN  IF ~Truthy(anthropic_messages) THEN Obj(openai_request)
        ELSE IF ~IsList(anthropic_messages) THEN Raise
        ELSE LET messages == ConvertMessages(anthropic_messages.l, u, 1) IN
             IF messages = Raise THEN Raise
             ELSE LET with_messages   == openai_request @@ [messages |-> messages]
                      anthropic_tools == Get(anthropic_request, "tools", List(<<>>))
                  IN  IF ~Truthy(anthropic_tools) THEN Obj(with_messages)
                      ELSE LET openai_tools == ConvertTools(anthropic_tools) IN
                           IF openai_tools = Raise THEN Raise
                           ELSE Obj(with_messages @@ [tools |-> openai_tools])

(***************************************************************************)
(* convert_openai_to_anthropic_response                                    *)
(***************************************************************************)

\* ParseArguments whose except branch gives the empty object.
ParseArguments_NoFallback(arguments_str) ==
    IF IsDict(arguments_str) THEN arguments_str
    ELSE IF IsStr(arguments_str) THEN
        LET parsed == Loads(arguments_str.s) IN
        IF parsed = Raise THEN Obj(EmptyDict) ELSE parsed
    ELSE Obj(EmptyDict)

\* The try/except around the arguments of one tool call.
ParseArguments(arguments_str) ==
    IF IsDict(arguments_str) THEN arguments_str
    ELSE IF IsStr(arguments_str) THEN
        LET parsed == Loads(arguments_str.s) IN
        IF parsed = Raise THEN Obj([text |-> Str(PyStr(arguments_str))])
        ELSE parsed
    ELSE Obj(EmptyDict)

\* The tool_use blocks appended by `for tool_call in tool_calls`, from entry
\* number j on: entries that are not dicts, whose function is not a dict or
\* whose name is falsy are skipped.
RECURSIVE ToolUseBlocks(_, _, _)
ToolUseBlocks(tool_calls, u, j) ==
    IF j > Len(tool_calls) THEN <<>>
    ELSE LET tool_call == tool_calls[j]
             rest      == ToolUseBlocks(tool_calls, u, j + 1)
         IN  IF ~IsDict(tool_call) THEN rest
             ELSE LET tool_id  == Get(tool_call, "id", FreshCallId(u, 0, j))
                      function == Get(tool_call, "function", Obj(EmptyDict))
                  IN  IF ~IsDict(function) THEN rest
                      ELSE LET tool_name == Get(function, "name", Str("")) IN
                           IF ~Truthy(tool_name) THEN rest
                           ELSE << Obj([ type  |-> Str("tool_use"),
                                         id    |-> tool_id,
                                         name  |-> tool_name,
                                         input |-> ParseArguments(
                                                     Get(function, "arguments", Str("{}"))) ]) >>
                                \o rest

\* The content list built from the first choice's message (steps 1 and 2).
ResponseContent(message, u) ==
    LET text_content == GetN(message, "content")
        text_blocks  == IF Truthy(text_content)
                        THEN << Obj([type |-> Str("text"), text |-> text_content]) >>
                        ELSE <<>>
        raw_calls    == GetN(message, "tool_calls")
        tool_calls   == IF IsList(raw_calls) THEN raw_calls.l ELSE <<>>
    IN  text_blocks \o ToolUseBlocks(tool_calls, u, 1)

\* ContentOrEmptyText without the default block.
ContentOrEmptyText_NoDefault(content) == List(content)

\* content if content else [{"type": "text", "text": ""}]
ContentOrEmptyText(content) ==
    IF content # <<>> THEN List(content)
    ELSE List(<< Obj([type |-> Str("text"), text |-> Str("")]) >>)

\* "tool_use" for "tool_calls", the finish reason itself otherwise.
StopReason(finish_reason) ==
    IF finish_reason = Str("tool_calls") THEN Str("tool_use") ELSE finish_reason

\* convert_openai_to_anthropic_response(openai_response), with u the outcome
\* of the uuid draws of this call: a document, or Raise.
convert_openai_to_anthropic_response(openai_response, u) ==
    LET choices == GetN(openai_response, "choices") IN
    IF ~Truthy(choices) THEN openai_response
    \* ["choices"][0]: TypeError or KeyError on a number, a boolean or a dict;
    \* the first character of a string, on which .get raises.
    ELSE IF ~IsList(choices) THEN Raise
    ELSE LET choice == choices.l[1] IN
         IF ~IsDict(choice) THEN Raise
         ELSE LET message == Get(choice, "message", Obj(EmptyDict))
                  usage   == Get(openai_response, "usage", Obj(EmptyDict))
              IN  IF ~IsDict(message) \/ ~IsDict(usage) THEN Raise
                  ELSE LET content == ResponseContent(message, u) IN
                       Obj([ id      |-> Get(openai_response, "id", Str("msg_" \o u)),
                             type    |-> Str("message"),
                             role    |-> Str("assistant"),
                             content |-> ContentOrEmptyText(content),
                             model   |-> Get(openai_response, "model", Str("")),
                             stop_reason   |-> StopReason(Get(choice, "finish_reason", Str(""))),
                             stop_sequence |-> Null,
                             usage   |-> Obj([ input_tokens  |-> Get(usage, "prompt_tokens", Num(0)),
                                               output_tokens |-> Get(usage, "completion_tokens", Num(0)) ]) ])

(***************************************************************************)
(* State                                                                   *)
(***************************************************************************)
VARIABLES
    pc,                  \* where control is: see the actions
    request,             \* the HTTP request being served
    anthropic_request,   \* the Format A request
    openai_request,      \* convert_anthropic_to_openai_request's result
    openai_response,     \* the Format B response
    anthropic_response,  \* convert_openai_to_anthropic_response's result
    response,            \* what urlopen gave: a response, or the exception it raised
    status,              \* the status code sent to the client
    reply,               \* the body sent to the client
    calls                \* the calls made while serving the request, in order

vars == << pc, request, anthropic_request, openai_request, response, openai_response,
           anthropic_response, status, reply, calls >>

\* A local that has not been assigned yet.
Unset == [t |-> "unset"]

(***************************************************************************)
(* Inputs of the request translator                                        *)
(***************************************************************************)
MaxMsgs == 2      \* source messages in a conversation
MaxBlocks == 3    \* content blocks in one message

\* Outcomes of the uuid4 draws of one call.
Uuids == {"1f", "2e"}

TextA      == Obj([type |-> Str("text"), text |-> Str("a")])
TextEmpty  == Obj([type |-> Str("text"), text |-> Str("")])
ToolUseX   == Obj([type |-> Str("tool_use"), id |-> Str("X"), name |-> Str("f"),
                   input |-> Obj([x |-> Num(1)])])
ToolUseNoName == Obj([type |-> Str("tool_use"), id |-> Str("Y"), name |-> Str("")])
ToolUseNoId == Obj([type |-> Str("tool_use"), name |-> Str("g"), input |-> Str("raw")])
ToolResultX == Obj([type |-> Str("tool_result"), tool_use_id |-> Str("X"),
                    content |-> Str("r")])
ToolResultY == Obj([type |-> Str("tool_result"), tool_use_id |-> Str("Y"),
                    content |-> List(<<Str("r")>>)])
NotABlock  == Str("z")

Blocks == { TextA, TextEmpty, ToolUseX, ToolUseNoName, ToolUseNoId,
            ToolResultX, ToolResultY, NotABlock }

Message(role, content) == Obj([role |-> Str(role), content |-> content])

\* One message of every role and every kind of content, block sequences of
\* up to MaxBlocks blocks included, and a non-object element.
SingleMessages ==
    { Message(r, c) : r \in {"system", "user", "assistant", "tool"},
                      c \in {Str("hi"), Null, Num(3)} }
    \cup { Message(r, List(bs)) : r \in {"system", "user", "assistant"},
                                  bs \in UNION { [1..k -> Blocks] : k \in 0..MaxBlocks } }
    \cup { Obj([content |-> Str("hi")]), Str("not a message"),
           Message("user", List(<< Obj([type |-> Str("text"), text |-> Null]) >>)) }

\* The turns conversations are made of.
TurnMessages ==
    { Message("system", Str("sys")), Message("user", Str("hi")), Message("user", Null),
      Message("assistant", Str("hi")), Message("tool", Str("hi")), Str("not a message"),
      Message("assistant", List(<< ToolUseX >>)),
      Message("assistant", List(<< TextA, ToolUseX >>)),
      Message("assistant", List(<< ToolUseNoName >>)),
      Message("assistant", List(<< ToolUseNoId >>)),
      Message("user", List(<< ToolResultX >>)),
      Message("user", List(<< ToolResultY >>)),
      Message("user", List(<< TextA, ToolResultX >>)),
      Message("user", List(<< ToolResultY, ToolResultX, TextA >>)) }

MessageLists ==
    { <<>> } \cup { << m >> : m \in SingleMessages }
    \cup UNION { [1..n -> TurnMessages] : n \in 2..MaxMsgs }

\* Optional fields: a set of one-key records, or the empty record when absent.
Optional(k, values) == { EmptyDict } \cup { k :> v : v \in values }

AnthropicTool == Obj([name |-> Str("f"), description |-> Str("d"),
                      input_schema |-> Obj([type |-> Str("object")])])

\* Requests that vary the top-level fields over a few message lists.
EnvelopeRequests ==
    { Obj(a @@ b @@ c @@ d @@ e @@ f) :
        a \in Optional("model", {Str("claude")}),
        b \in Optional("max_tokens", {Num(5)}),
        c \in Optional("temperature", {Num(1), Null}),
        d \in Optional("stream", {Bool(TRUE)}),
        e \in Optional("messages",
                { Null, List(<<>>), Str("hi"), Num(3),
                  List(<< Message("user", Str("hi")) >>),
                  List(<< Message("tool", Str("hi")) >>) }),
        f \in Optional("tools",
                { Null, List(<<>>), List(<< AnthropicTool >>),
                  List(<< Obj([name |-> Str("g")]), Null >>), Str("tools") }) }

\* Requests that vary the messages under one envelope.
MessageRequests ==
    { Obj([model |-> Str("claude"), max_tokens |-> Num(5), messages |-> List(ms)]) :
        ms \in MessageLists }

AnthropicRequests == EnvelopeRequests \cup MessageRequests

(***************************************************************************)
(* Inputs of the response translator                                       *)
(***************************************************************************)
MaxToolCalls == 2    \* entries of message.tool_calls

\* function.arguments of a well-formed tool call.
ArgumentValues ==
    { Obj(EmptyDict), Obj([x |-> Num(1)]), Str("{\"x\": 1}"), Str("{}"), Str("hello"),
      Str("7"), Str(""), Num(7), Null, List(<<Str("a")>>), Bool(TRUE) }

Function(name, arguments) == Obj([name |-> Str(name), arguments |-> arguments])

ToolCallEntries ==
    { Obj([id |-> Str("c1"), type |-> Str("function"), function |-> Function("f", a)]) :
        a \in ArgumentValues }
    \cup { Obj([id |-> Str("c2"), function |-> Obj([name |-> Str("g")])]),
           Obj([function |-> Function("f", Str("{}"))]),
           Obj([id |-> Str("c3"), function |-> Function("", Str("{}"))]),
           Obj([id |-> Str("c4"), function |-> Str("f")]),
           Obj([id |-> Str("c5")]),
           Str("not a tool call"), Null }

\* choices[0].message with every kind of content and of tool_calls.
ResponseMessages ==
    { Obj(a @@ b) :
        a \in Optional("content", {Null, Str(""), Str("Hello!")}),
        b \in Optional("tool_calls",
                {Null, Str("calls"), Obj([id |-> Str("c1")])}
                \cup { List(cs) : cs \in UNION { [1..k -> ToolCallEntries] :
                                                   k \in 0..MaxToolCalls } }) }

\* Responses that vary the first choice's message under one envelope.
MessageResponses ==
    { Obj([id |-> Str("chatcmpl-1"), model |-> Str("gpt"),
           choices |-> List(<< Obj([message |-> m, finish_reason |-> Str("stop")]) >>),
           usage |-> Obj([prompt_tokens |-> Num(3), completion_tokens |-> Num(4)])]) :
        m \in ResponseMessages }

TextMessage == Obj([role |-> Str("assistant"), content |-> Str("Hello!")])
CallMessage == Obj([content |-> Null,
                    tool_calls |-> List(<< Obj([id |-> Str("c1"),
                                                function |-> Function("f", Str("{}"))]) >>)])

\* Responses that vary the top-level fields and the first choice.
EnvelopeResponses ==
    { Obj(a @@ b @@ c @@ d) :
        a \in Optional("id", {Str("chatcmpl-1")}),
        b \in Optional("model", {Str("gpt")}),
        c \in Optional("usage", { Null, Str("usage"), Obj(EmptyDict),
                                  Obj([prompt_tokens |-> Num(3), completion_tokens |-> Num(4)]) }),
        d \in Optional("choices",
                { Null, List(<<>>), Str("choices"), Num(1), Obj([a |-> Num(1)]),
                  List(<< Str("choice") >>), List(<< Null >>) }
                \cup { List(<< Obj(m @@ f) >>) :
                         m \in Optional("message", {Null, Str("message"), TextMessage, CallMessage}),
                         f \in Optional("finish_reason",
                                 {Str("stop"), Str("tool_calls"), Str("length"), Str(""), Null}) }
                \cup { List(<< Obj([message |-> CallMessage]), Str("choice") >>) }) }

OpenAIResponses == EnvelopeResponses \cup MessageResponses

(***************************************************************************)
(* The request translator applied to every request                         *)
(***************************************************************************)
InitRequest ==
    /\ pc = "convert_request"
    /\ anthropic_request \in AnthropicRequests
    /\ openai_request = Unset
    /\ openai_response = Unset
    /\ anthropic_response = Unset
    /\ request = Unset
    /\ response = Unset
    /\ status = 0
    /\ reply = Unset
    /\ calls = <<>>

\* openai_request = convert_anthropic_to_openai_request(anthropic_request)
TranslateRequest ==
    /\ pc = "convert_request"
    /\ \E u \in Uuids :
          openai_request' = convert_anthropic_to_openai_request(anthropic_request, u)
    /\ pc' = "request_converted"
    /\ UNCHANGED << request, anthropic_request, response, openai_response,
                    anthropic_response, status, reply, calls >>

(***************************************************************************)
(* The response translator applied to every response                       *)
(***************************************************************************)
InitResponse ==
    /\ pc = "convert_response"
    /\ openai_response \in OpenAIResponses
    /\ anthropic_response = Unset
    /\ anthropic_request = Unset
    /\ openai_request = Unset
    /\ request = Unset
    /\ response = Unset
    /\ status = 0
    /\ reply = Unset
    /\ calls = <<>>

\* anthropic_response = convert_openai_to_anthropic_response(openai_response)
TranslateResponse ==
    /\ pc = "convert_response"
    /\ \E u \in Uuids :
          anthropic_response' = convert_openai_to_anthropic_response(openai_response, u)
    /\ pc' = "response_converted"
    /\ UNCHANGED << request, anthropic_request, openai_request, response,
                    openai_response, status, reply, calls >>

(***************************************************************************)
(* ProxyHandler                                                            *)
(***************************************************************************)

\* An exception of the named class.
Exc(name) == [t |-> "raise", exc |-> name]
IsRaise(v) == v.t = "raise"

\* The body send_error writes: http.server's HTML error page.
ErrorPage(message) == [kind |-> "error_page", message |-> message]
\* json.dumps(doc) written as the body.
JsonBody(doc) == [kind |-> "json", doc |-> doc]
\* The backend's error body relayed as it came.
RawBody == [kind |-> "raw"]

\* {"error": {"message": ..., "type": ...}}
ErrorEnvelope(message, type) ==
    JsonBody(Obj([error |-> Obj([message |-> Str(message), type |-> Str(type)])]))

\* do_POST's test of the path without the query string: it is, or ends with,
\* "/v1/messages".  A target is [prefix, tail, query], prefix \o tail its path.
PathMatches(target) == target.tail = "/v1/messages"

\* len(v) raises TypeError on a value that has no length.
HasLen(v) == v.t \in {"str", "list", "obj"}

\* The print of line 340 evaluates anthropic_request.get('model') and
\* len(anthropic_request.get('messages', [])).
RequestLogRaises(doc) ==
    \/ ~IsDict(doc)
    \/ ~HasLen(Get(doc, "messages", List(<<>>)))

\* The print of line 386 evaluates
\* openai_response.get('choices', [{}])[0].get('finish_reason', 'N/A').
ResponseLogRaises(doc) ==
    \/ ~IsDict(doc)
    \/ LET choices == Get(doc, "choices", List(<< Obj(EmptyDict) >>)) IN
       \/ ~IsList(choices)
       \/ choices.l = <<>>
       \/ ~IsDict(choices.l[1])

\* The client is answered: status and body are sent, the handler returns.
Respond(code, body) ==
    /\ status' = code
    /\ reply' = body
    /\ pc' = "responded"

\* The handlers of the try block that spans handle_anthropic_request.
OuterExcept(exc) ==
    IF exc = Exc("JSONDecodeError")
    THEN Respond(400, ErrorEnvelope("Invalid JSON", "invalid_request_error"))
    ELSE Respond(500, ErrorEnvelope(exc.exc, "proxy_error"))

\* handle_anthropic_request up to the call of urlopen.
HandleRequest(req, u) ==
    LET parsed == req.body.parse
        converted == convert_anthropic_to_openai_request(parsed, u)
    IN  IF req.body.content_length = 0 THEN
            /\ Respond(400, ErrorPage("Empty request body"))
            /\ UNCHANGED << anthropic_request, openai_request, calls >>
        ELSE IF parsed = Exc("JSONDecodeError") THEN
            /\ Respond(400, ErrorPage("Invalid JSON"))
            /\ UNCHANGED << anthropic_request, openai_request, calls >>
        ELSE IF IsRaise(parsed) THEN
            /\ OuterExcept(parsed)
            /\ UNCHANGED << anthropic_request, openai_request, calls >>
        ELSE IF RequestLogRaises(parsed) THEN
            /\ anthropic_request' = parsed
            /\ OuterExcept(Exc("TypeError"))
            /\ UNCHANGED << openai_request, calls >>
        ELSE IF converted = Raise THEN
            /\ anthropic_request' = parsed
            /\ openai_request' = Raise
            /\ calls' = Append(calls, "convert_anthropic_to_openai_request")
            /\ Respond(500, ErrorPage("Conversion error"))
        ELSE
            /\ anthropic_request' = parsed
            /\ openai_request' = converted
            /\ calls' = calls \o << "convert_anthropic_to_openai_request", "urlopen" >>
            /\ pc' = "forwarding"
            /\ UNCHANGED << status, reply >>

\* do_POST: a request arrives at the listening server.
do_POST(req) ==
    /\ pc = "listening"
    /\ request' = req
    /\ IF PathMatches(req.target)
       THEN \E u \in Uuids : HandleRequest(req, u)
       ELSE /\ Respond(404, ErrorPage("Not Found"))
            /\ UNCHANGED << anthropic_request, openai_request, calls >>
    /\ UNCHANGED << response, openai_response, anthropic_response >>

\* handle_anthropic_request from the return of urlopen on.
Forward(result, u) ==
    /\ pc = "forwarding"
    /\ response' = result
    /\ IF result.kind = "HTTPError" THEN
            /\ Respond(result.code,
                       IF IsRaise(result.parse) THEN RawBody ELSE JsonBody(result.parse))
            /\ UNCHANGED << openai_response, anthropic_response, calls >>
       ELSE IF result.kind # "ok" THEN
            /\ Respond(500, ErrorEnvelope(result.kind, "proxy_error"))
            /\ UNCHANGED << openai_response, anthropic_response, calls >>
       ELSE IF result.empty THEN
            /\ Respond(500, ErrorPage("Empty response from target server"))
            /\ UNCHANGED << openai_response, anthropic_response, calls >>
       ELSE IF result.parse = Exc("JSONDecodeError") THEN
            /\ Respond(500, ErrorPage("Invalid JSON response"))
            /\ UNCHANGED << openai_response, anthropic_response, calls >>
       ELSE IF IsRaise(result.parse) THEN
            /\ Respond(500, ErrorEnvelope(result.parse.exc, "proxy_error"))
            /\ UNCHANGED << openai_response, anthropic_response, calls >>
       ELSE IF ResponseLogRaises(result.parse) THEN
            /\ openai_response' = result.parse
            /\ Respond(500, ErrorEnvelope("TypeError", "proxy_error"))
            /\ UNCHANGED << anthropic_response, calls >>
       ELSE LET converted == convert_openai_to_anthropic_response(result.parse, u) IN
            /\ openai_response' = result.parse
            /\ anthropic_response' = converted
            /\ calls' = Append(calls, "convert_openai_to_anthropic_response")
            /\ IF converted = Raise
               THEN Respond(500, ErrorPage("Conversion error"))
               ELSE Respond(200, JsonBody(converted))
    /\ UNCHANGED << request, anthropic_request, openai_request >>

\* serve_forever: the request is finished, the server takes the next one.
ServeNext ==
    /\ pc = "responded"
    /\ pc' = "listening"
    /\ request' = Unset
    /\ anthropic_request' = Unset
    /\ openai_request' = Unset
    /\ response' = Unset
    /\ openai_response' = Unset
    /\ anthropic_response' = Unset
    /\ status' = 0
    /\ reply' = Unset
    /\ calls' = <<>>

\* Request targets and bodies of the clients.
Targets ==
    { [prefix |-> "", tail |-> "/v1/messages", query |-> ""],
      [prefix |-> "/api", tail |-> "/v1/messages", query |-> "?beta=true"],
      [prefix |-> "", tail |-> "/v1/complete", query |-> ""] }

\* A body of content_length bytes; parse is json.loads(body.decode("utf-8")).
Body(content_length, parse) == [content_length |-> content_length, parse |-> parse]

UserHello == Obj([model |-> Str("claude"), max_tokens |-> Num(5),
                  messages |-> List(<< Message("user", Str("Hello!")) >>)])

RequestBodies ==
    { Body(0, Exc("JSONDecodeError")),
      Body(1, Exc("UnicodeDecodeError")),
      Body(1, Exc("JSONDecodeError")),
      Body(2, List(<<>>)),
      Body(2, Obj(EmptyDict)),
      Body(9, Obj([messages |-> Null])),
      Body(9, Obj([messages |-> List(<< Str("not a message") >>)])),
      Body(9, Obj([messages |-> List(<< Message("user", Str("hi")) >>), tools |-> Str("t")])),
      Body(9, UserHello),
      Body(9, Obj([messages |-> List(<< Message("assistant", List(<< ToolUseNoId >>)),
                                        Message("user", List(<< ToolResultX, TextA >>)) >>),
                   tools |-> List(<< AnthropicTool >>)])) }

HttpRequests == { [target |-> t, body |-> b] : t \in Targets, b \in RequestBodies }

Usage == Obj([prompt_tokens |-> Num(3), completion_tokens |-> Num(4)])

\* What urlopen gives: an HTTP error status with its body, another exception,
\* or a 2xx response whose body is empty or parses to `parse`.
HttpError(code, parse) == [kind |-> "HTTPError", code |-> code, parse |-> parse]
Failed(kind) == [kind |-> kind]
Ok(empty, parse) == [kind |-> "ok", empty |-> empty, parse |-> parse]

BackendResults ==
    { HttpError(429, Obj([error |-> Obj([message |-> Str("slow down")])])),
      HttpError(502, Exc("JSONDecodeError")),
      Failed("timeout"), Failed("URLError"),
      Ok(TRUE, Exc("JSONDecodeError")),
      Ok(FALSE, Exc("JSONDecodeError")),
      Ok(FALSE, Exc("UnicodeDecodeError")),
      Ok(FALSE, List(<<>>)),
      Ok(FALSE, Obj([error |-> Str("no choices")])),
      Ok(FALSE, Obj([choices |-> List(<<>>)])),
      Ok(FALSE, Obj([choices |-> List(<< Obj([message |-> Null]) >>)])),
      Ok(FALSE, Obj([choices |-> List(<< Obj([message |-> TextMessage]) >>), usage |-> Null])),
      Ok(FALSE, Obj([id |-> Str("chatcmpl-1"), model |-> Str("gpt"), usage |-> Usage,
                     choices |-> List(<< Obj([message |-> TextMessage,
                                              finish_reason |-> Str("stop")]) >>)])),
      Ok(FALSE, Obj([model |-> Str("gpt"), usage |-> Usage,
                     choices |-> List(<< Obj([message |-> CallMessage,
                                              finish_reason |-> Str("tool_calls")]) >>)])) }

InitServer ==
    /\ pc = "listening"
    /\ request = Unset
    /\ anthropic_request = Unset
    /\ openai_request = Unset
    /\ response = Unset
    /\ openai_response = Unset
    /\ anthropic_response = Unset
    /\ status = 0
    /\ reply = Unset
    /\ calls = <<>>

(***************************************************************************)
(* The program: the two translators called on their own, and the server    *)
(***************************************************************************)
Init == InitRequest \/ InitResponse \/ InitServer

Next ==
    \/ TranslateRequest
    \/ TranslateResponse
    \/ \E req \in HttpRequests : do_POST(req)
    \/ \E result \in BackendResults, u \in Uuids : Forward(result, u)
    \/ ServeNext

Spec == Init /\ [][Next]_vars

(***************************************************************************)
(* Properties of convert_openai_to_anthropic_response                      *)
(***************************************************************************)

\* The response translator was called and came back (or raised).
ResponseTranslated == openai_response # Unset /\ anthropic_response # Unset

IsDoc(v) == v.t = "obj"

\* A response with at least one choice whose first choice, message and usage
\* have the shape of the data model (an object, or absent).
HasFirstChoice(resp) ==
    /\ IsDoc(resp)
    /\ "choices" \in DOMAIN resp.o
    /\ IsList(resp.o.choices)
    /\ resp.o.choices.l # <<>>
    /\ IsDoc(resp.o.choices.l[1])
    /\ IsDoc(Get(resp.o.choices.l[1], "message", Obj(EmptyDict)))
    /\ IsDoc(Get(resp, "usage", Obj(EmptyDict)))

FirstMessage(resp) == Get(resp.o.choices.l[1], "message", Obj(EmptyDict))

\* A tool_calls entry the translator passes over: not an object, its function
\* not an object, or its function name empty.
SkippedEntry(e) ==
    \/ ~IsDoc(e)
    \/ ~IsDoc(Get(e, "function", Obj(EmptyDict)))
    \/ ~Truthy(Get(Get(e, "function", Obj(EmptyDict)), "name", Str("")))

\* The entries of message.tool_calls, none when it is absent, null or no list.
SourceToolCalls(message) ==
    IF "tool_calls" \in DOMAIN message.o /\ IsList(message.o.tool_calls)
    THEN message.o.tool_calls.l ELSE <<>>

AcceptedToolCalls(message) ==
    LET Accepted(e) == ~SkippedEntry(e) IN SelectSeq(SourceToolCalls(message), Accepted)

\* The first choice gives no text block and no tool_use block.
YieldsNoBlock(message) ==
    /\ ~Truthy(GetN(message, "content"))
    /\ AcceptedToolCalls(message) = <<>>

EmptyTextBlock == Obj([type |-> Str("text"), text |-> Str("")])

\* C1: for every Format B response with at least one choice the translator
\* returns a document whose content array has at least one element, and when
\* the first choice yields neither text nor tool_use block the content is
\* exactly one text block with empty text.
C1_ContentNeverEmpty ==
    (ResponseTranslated /\ HasFirstChoice(openai_response)) =>
        /\ IsDoc(anthropic_response)
        /\ "content" \in DOMAIN anthropic_response.o
        /\ IsList(anthropic_response.o.content)
        /\ Len(anthropic_response.o.content.l) >= 1
        /\ YieldsNoBlock(FirstMessage(openai_response)) =>
               anthropic_response.o.content.l = << EmptyTextBlock >>

\* A response whose tool_calls hold only skipped entries and whose content is
\* null was translated to the single empty text block.
C1_Witness ==
    /\ ResponseTranslated
    /\ HasFirstChoice(openai_response)
    /\ Len(SourceToolCalls(FirstMessage(openai_response))) = MaxToolCalls
    /\ YieldsNoBlock(FirstMessage(openai_response))
    /\ anthropic_response.o.content.l = << EmptyTextBlock >>

\* The tool_use blocks of a translated response, in order.
ToolUseBlocksOf(doc) ==
    LET IsToolUse(b) == IsDoc(b) /\ GetN(b, "type") = Str("tool_use")
    IN SelectSeq(doc.o.content.l, IsToolUse)

\* function.arguments of an accepted entry ("{}" when the key is absent).
ArgumentsOf(e) == Get(e.o.function, "arguments", Str("{}"))

\* The input the spec gives for an arguments value: the fallback object for a
\* string that does not parse and for every value that is neither an object
\* nor a string.
ClaimedInput(a) ==
    IF IsDoc(a) THEN a
    ELSE IF IsStr(a) /\ Loads(a.s) # Raise THEN Loads(a.s)
    ELSE Obj([text |-> Str(PyStr(a))])

\* The input the code gives: as above, but the empty object for a value that
\* is neither an object nor a string.
AmendedInput(a) ==
    IF IsDoc(a) THEN a
    ELSE IF IsStr(a) THEN (IF Loads(a.s) # Raise THEN Loads(a.s)
                           ELSE Obj([text |-> Str(a.s)]))
    ELSE Obj(EmptyDict)

\* Every accepted tool call became one tool_use block, in order, whose input
\* is Expected(arguments).
InputsAre(Expected(_)) ==
    (ResponseTranslated /\ HasFirstChoice(openai_response)) =>
        /\ IsDoc(anthropic_response)
        /\ LET accepted == AcceptedToolCalls(FirstMessage(openai_response))
               blocks   == ToolUseBlocksOf(anthropic_response)
           IN  /\ Len(blocks) = Len(accepted)
               /\ \A k \in 1..Len(accepted) :
                      /\ blocks[k].o.name = accepted[k].o.function.o.name
                      /\ blocks[k].o.input = Expected(ArgumentsOf(accepted[k]))

\* C3 as stated: the input of each emitted tool_use block is the arguments
\* object itself, the parsed value of a string that parses, and the fallback
\* {"text": str(raw)} for an unparseable string and for any other type.
C3_AsClaimed == InputsAre(ClaimedInput)

\* C3 amended: the input is the arguments object itself, the parsed value of
\* a string that parses, {"text": raw} for a string that does not parse, and
\* the empty object {} for a value of any other type.
C3_ArgumentsInput == InputsAre(AmendedInput)

\* A tool call with the unparseable string and one with a number as
\* arguments were translated in one response: {"text": "hello"} and {}.
C3_Witness ==
    /\ ResponseTranslated
    /\ HasFirstChoice(openai_response)
    /\ IsDoc(anthropic_response)
    /\ LET accepted == AcceptedToolCalls(FirstMessage(openai_response))
           blocks   == ToolUseBlocksOf(anthropic_response)
       IN  /\ Len(accepted) = 2
           /\ ArgumentsOf(accepted[1]) = Str("hello")
           /\ ArgumentsOf(accepted[2]) = Num(7)
           /\ blocks[1].o.input = Obj([text |-> Str("hello")])
           /\ blocks[2].o.input = Obj(EmptyDict)

(***************************************************************************)
(* Properties of convert_anthropic_to_openai_request                       *)
(***************************************************************************)

\* The request translator was called and came back (or raised).
RequestTranslated == anthropic_request # Unset /\ openai_request # Unset

SourceMessages(req) ==
    IF "messages" \in DOMAIN req.o /\ IsList(req.o.messages) THEN req.o.messages.l ELSE <<>>

RoleOf(msg) == GetN(msg, "role")
ContentOf(msg) == GetN(msg, "content")

\* The blocks of one type in a content sequence, in source order.
OfType(blocks, ty) ==
    LET Is(b) == IsDoc(b) /\ GetN(b, "type") = Str(ty) IN SelectSeq(blocks, Is)

\* The text of the text blocks of a content sequence, in source order.
TextsOf(blocks) ==
    LET ts == OfType(blocks, "text") IN [k \in 1..Len(ts) |-> Get(ts[k], "text", Str(""))]

JoinedText(blocks) ==
    LET ts == TextsOf(blocks) IN Str(JoinStrings([k \in 1..Len(ts) |-> ts[k].s], "\n"))

\* A request of the data model's shape: messages absent or a list of objects
\* whose text blocks carry strings, tools absent or a list of objects.
WellFormedRequest(req) ==
    /\ IsDoc(req)
    /\ "messages" \in DOMAIN req.o => IsList(req.o.messages)
    /\ \A i \in 1..Len(SourceMessages(req)) :
          LET msg == SourceMessages(req)[i] IN
          /\ IsDoc(msg)
          /\ IsList(ContentOf(msg)) =>
                \A k \in 1..Len(TextsOf(ContentOf(msg).l)) : IsStr(TextsOf(ContentOf(msg).l)[k])
    /\ "tools" \in DOMAIN req.o =>
          /\ IsList(req.o.tools)
          /\ \A k \in 1..Len(req.o.tools.l) : IsDoc(req.o.tools.l[k])

\* How many Format B messages one source message stands for.
EmittedCount(msg) ==
    LET role == RoleOf(msg)
        c    == ContentOf(msg)
    IN  IF role = Str("system") THEN
            (IF IsStr(c) THEN 1
             ELSE IF IsList(c) /\ OfType(c.l, "text") # <<>> THEN 1 ELSE 0)
        ELSE IF role = Str("user") THEN
            (IF IsStr(c) \/ IsNone(c) THEN 1
             ELSE IF IsList(c)
                  THEN Len(OfType(c.l, "tool_result"))
                       + (IF OfType(c.l, "text") # <<>> THEN 1 ELSE 0)
                  ELSE 0)
        ELSE IF role = Str("assistant") THEN
            (IF IsStr(c) \/ IsNone(c) \/ IsList(c) THEN 1 ELSE 0)
        ELSE 0

\* How many Format B messages the source messages before number i stand for.
RECURSIVE Offset(_, _)
Offset(msgs, i) == IF i <= 1 THEN 0 ELSE Offset(msgs, i - 1) + EmittedCount(msgs[i - 1])

\* The request was translated to a document that has a message list.
HasOutMessages ==
    /\ IsDoc(openai_request)
    /\ "messages" \in DOMAIN openai_request.o
    /\ IsList(openai_request.o.messages)

OutMessages == openai_request.o.messages.l

\* The role every Format B message made from a source message of this role has,
\* but for the tool messages of a user message.
IsUserBlocks(msg) == RoleOf(msg) = Str("user") /\ IsList(ContentOf(msg))
IsAssistantBlocks(msg) == RoleOf(msg) = Str("assistant") /\ IsList(ContentOf(msg))

\* C9: a user message whose content is a block sequence gives one tool
\* message per tool_result block, in source order, each with tool_call_id =
\* the block's tool_use_id, then one user message holding the text blocks
\* joined by newline exactly when there is a text block; the messages of
\* different source messages keep the source order.
C9_UserBlocksOrder ==
    (RequestTranslated /\ WellFormedRequest(anthropic_request)
       /\ SourceMessages(anthropic_request) # <<>>) =>
        /\ HasOutMessages
        /\ LET msgs == SourceMessages(anthropic_request)
               out  == OutMessages
           IN  /\ Len(out) = Offset(msgs, Len(msgs) + 1)
               /\ \A i \in 1..Len(msgs) :
                    LET off == Offset(msgs, i) IN
                    /\ ~IsUserBlocks(msgs[i]) =>
                          \A k \in 1..EmittedCount(msgs[i]) :
                              out[off + k].o.role = RoleOf(msgs[i])
                    /\ IsUserBlocks(msgs[i]) =>
                          LET blocks  == ContentOf(msgs[i]).l
                              results == OfType(blocks, "tool_result")
                              n       == Len(results)
                          IN  /\ \A k \in 1..n :
                                    /\ out[off + k].o.role = Str("tool")
                                    /\ out[off + k].o.tool_call_id =
                                          Get(results[k], "tool_use_id", Str(""))
                              /\ OfType(blocks, "text") # <<>> =>
                                    out[off + n + 1] =
                                        Obj([role |-> Str("user"),
                                             content |-> JoinedText(blocks)])

\* A user message with two tool results and a text, after an assistant
\* message, was translated: assistant, tool Y, tool X, user text.
C9_Witness ==
    /\ RequestTranslated
    /\ HasOutMessages
    /\ SourceMessages(anthropic_request) =
          << Message("assistant", List(<< TextA, ToolUseX >>)),
             Message("user", List(<< ToolResultY, ToolResultX, TextA >>)) >>
    /\ Len(OutMessages) = 4
    /\ OutMessages[2].o.tool_call_id = Str("Y")
    /\ OutMessages[3].o.tool_call_id = Str("X")
    /\ OutMessages[4] = Obj([role |-> Str("user"), content |-> Str("a")])

\* The ids of the tool calls a Format B message carries.
ToolCallIds(m) ==
    IF "tool_calls" \in DOMAIN m.o /\ IsList(m.o.tool_calls)
    THEN { m.o.tool_calls.l[c].o.id : c \in 1..Len(m.o.tool_calls.l) }
    ELSE {}

\* Every tool_use block that satisfies Covered, has an id and sits in an
\* assistant message before a user message with a tool_result block of that
\* tool_use_id gives that id in the tool_calls of the assistant message made
\* from its message and as tool_call_id of the tool message made from the
\* tool_result block.
ToolIdsRoundTrip(Covered(_)) ==
    (RequestTranslated /\ WellFormedRequest(anthropic_request)) =>
        LET msgs == SourceMessages(anthropic_request) IN
        \A i \in 1..Len(msgs), j \in 1..Len(msgs) :
            (i < j /\ IsAssistantBlocks(msgs[i]) /\ IsUserBlocks(msgs[j])) =>
                LET uses    == OfType(ContentOf(msgs[i]).l, "tool_use")
                    results == OfType(ContentOf(msgs[j]).l, "tool_result")
                IN  \A a \in 1..Len(uses), b \in 1..Len(results) :
                        ( /\ Covered(uses[a])
                          /\ "id" \in DOMAIN uses[a].o
                          /\ "tool_use_id" \in DOMAIN results[b].o
                          /\ results[b].o.tool_use_id = uses[a].o.id ) =>
                            /\ HasOutMessages
                            /\ uses[a].o.id \in ToolCallIds(OutMessages[Offset(msgs, i) + 1])
                            /\ OutMessages[Offset(msgs, j) + b].o.role = Str("tool")
                            /\ OutMessages[Offset(msgs, j) + b].o.tool_call_id = uses[a].o.id

AnyToolUse(block) == TRUE
NamedToolUse(block) == Truthy(Get(block, "name", Str("")))

\* C2 as stated: for any tool_use block with id X in an assistant message
\* followed by a tool_result block with tool_use_id = X in a user message, X
\* is an id in the assistant message's tool_calls and the tool_call_id of the
\* corresponding tool message.
C2_AsClaimed == ToolIdsRoundTrip(AnyToolUse)

\* C2 amended: the same for any tool_use block with id X and a non-empty
\* name; a tool_use block whose name is empty or absent gives no tool call.
C2_ToolIdRoundTrip == ToolIdsRoundTrip(NamedToolUse)

\* The pair tool_use X / tool_result X was translated: X is both ids.
C2_Witness ==
    /\ RequestTranslated
    /\ HasOutMessages
    /\ SourceMessages(anthropic_request) =
          << Message("assistant", List(<< ToolUseX >>)),
             Message("user", List(<< ToolResultX >>)) >>
    /\ Len(OutMessages) = 2
    /\ ToolCallIds(OutMessages[1]) = { Str("X") }
    /\ OutMessages[2].o.tool_call_id = Str("X")

\* C8 as stated: an assistant message whose content is a block sequence gives
\* exactly one assistant message; its content is the joined text when there
\* is text, is absent when there is no text but there are tool calls, is ""
\* when there is neither; tool_calls is attached only when non-empty; so the
\* message carries a content key or a non-empty tool_calls list.
C8_AsClaimed ==
    (RequestTranslated /\ WellFormedRequest(anthropic_request)
       /\ SourceMessages(anthropic_request) # <<>>) =>
        /\ HasOutMessages
        /\ LET msgs == SourceMessages(anthropic_request) IN
           \A i \in 1..Len(msgs) :
              IsAssistantBlocks(msgs[i]) =>
                 LET blocks == ContentOf(msgs[i]).l
                     uses   == OfType(blocks, "tool_use")
                     texts  == OfType(blocks, "text")
                     m      == OutMessages[Offset(msgs, i) + 1]
                 IN  /\ m.o.role = Str("assistant")
                     /\ texts # <<>> => ("content" \in DOMAIN m.o
                                          /\ m.o.content = JoinedText(blocks))
                     /\ (texts = <<>> /\ uses # <<>>) => "content" \notin DOMAIN m.o
                     /\ (texts = <<>> /\ uses = <<>>) =>
                            ("content" \in DOMAIN m.o /\ m.o.content = Str(""))
                     /\ "tool_calls" \in DOMAIN m.o =>
                            (IsList(m.o.tool_calls) /\ m.o.tool_calls.l # <<>>)
                     /\ \/ "content" \in DOMAIN m.o
                        \/ "tool_calls" \in DOMAIN m.o

\* No message can be translated: messages absent or empty, or every message
\* of an unrecognised role.
NoMessageToTranslate(req) ==
    \/ "messages" \notin DOMAIN req.o
    \/ /\ IsList(req.o.messages)
       /\ \A i \in 1..Len(req.o.messages.l) :
             RoleOf(req.o.messages.l[i]) \notin {Str("system"), Str("user"), Str("assistant")}

\* C4 as stated: a request with zero messages, or whose messages all have an
\* unrecognised role, gives a request with `messages` = [] and every other
\* field translated as usual: model, max_tokens, stream copied, tools
\* converted when the source has tools.
C4_AsClaimed ==
    (RequestTranslated /\ WellFormedRequest(anthropic_request)
       /\ NoMessageToTranslate(anthropic_request)) =>
        /\ IsDoc(openai_request)
        /\ "messages" \in DOMAIN openai_request.o
        /\ openai_request.o.messages = List(<<>>)
        /\ openai_request.o.model = Get(anthropic_request, "model", Str("gpt-4"))
        /\ openai_request.o.max_tokens = Get(anthropic_request, "max_tokens", Num(1024))
        /\ openai_request.o.stream = Get(anthropic_request, "stream", Bool(FALSE))
        /\ Truthy(Get(anthropic_request, "tools", List(<<>>))) =>
              /\ "tools" \in DOMAIN openai_request.o
              /\ Len(openai_request.o.tools.l) = Len(anthropic_request.o.tools.l)

\* C5 as stated: the output has a temperature key exactly when the source
\* has one, with the same value; model, max_tokens and stream default to
\* "gpt-4", 1024 and false.
C5_AsClaimed ==
    (RequestTranslated /\ IsDoc(anthropic_request) /\ IsDoc(openai_request)) =>
        /\ "temperature" \in DOMAIN openai_request.o
              <=> "temperature" \in DOMAIN anthropic_request.o
        /\ "temperature" \in DOMAIN anthropic_request.o =>
              openai_request.o.temperature = anthropic_request.o.temperature
        /\ openai_request.o.model = Get(anthropic_request, "model", Str("gpt-4"))
        /\ openai_request.o.max_tokens = Get(anthropic_request, "max_tokens", Num(1024))
        /\ openai_request.o.stream = Get(anthropic_request, "stream", Bool(FALSE))

\* C6 as stated: neither translator raises on a JSON object, whatever the
\* types of its fields; the call returns a document.
C6_AsClaimed ==
    /\ (RequestTranslated /\ IsDoc(anthropic_request)) => IsDoc(openai_request)
    /\ (ResponseTranslated /\ IsDoc(openai_response)) => IsDoc(anthropic_response)

(***************************************************************************)
(* Properties of ProxyHandler.handle_anthropic_request                     *)
(***************************************************************************)

\* The request reached handle_anthropic_request and was answered.
Answered == pc = "responded" /\ request # Unset /\ PathMatches(request.target)

TranslatorRaised == openai_request = Raise \/ anthropic_response = Raise
NoConnection == response # Unset /\ response.kind \in {"timeout", "URLError"}
BadBackendBody ==
    /\ response # Unset
    /\ response.kind = "ok"
    /\ response.empty \/ response.parse = Exc("JSONDecodeError")

\* {"error": {"message": <description>, "type": "proxy_error"}}
IsProxyErrorEnvelope(body) ==
    /\ body.kind = "json"
    /\ IsDoc(body.doc)
    /\ DOMAIN body.doc.o = {"error"}
    /\ IsDoc(body.doc.o.error)
    /\ DOMAIN body.doc.o.error.o = {"message", "type"}
    /\ body.doc.o.error.o.type = Str("proxy_error")

\* C7 as stated: a translator exception, a timeout or connection error, an
\* empty or non-JSON backend body each end the request with status 500 and
\* the JSON error envelope of type proxy_error.
C7_AsClaimed ==
    (Answered /\ (TranslatorRaised \/ NoConnection \/ BadBackendBody)) =>
        /\ status = 500
        /\ IsProxyErrorEnvelope(reply)

Range(seq) == { seq[k] : k \in 1..Len(seq) }

\* C10 as stated: a request whose body is zero-length or not valid JSON is
\* answered 400 and calls neither translator nor the backend; the response
\* translator is called only after the backend returned a non-empty body
\* that parses as JSON.
C10_AsClaimed ==
    Answered =>
        /\ (request.body.content_length = 0 \/ IsRaise(request.body.parse)) =>
              (status = 400 /\ calls = <<>>)
        /\ "convert_openai_to_anthropic_response" \in Range(calls) =>
              /\ Len(calls) = 3
              /\ calls[2] = "urlopen"
              /\ response.kind = "ok"
              /\ ~response.empty
              /\ ~IsRaise(response.parse)

====
